---- MODULE Spec2Model ----
\* A model of src/src/live_stream_handler.py: the VideoStreamCapture pipeline.
\* One producer thread (_query_frames) fetches frames with _query_frame and
\* appends them to a bounded deque; the main thread either records
\* (record_live_stream_to_folder) or displays (show_live_stream_video).
\* A frame is identified by its capture order: the n-th frame the source yields
\* is the number n; None (no frame) is 0.
EXTENDS Integers, Sequences, FiniteSets, TLC

\* ---------------------------------------------------------------- bounds
MaxFrames == 5          \* the model follows the stream for this many frames
MaxBufferSize == 3      \* buffer_size ranges over 0..MaxBufferSize
MaxFailAttempts == 2    \* max_sequential_fail_attempts ranges over 1..MaxFailAttempts
MaxImages == 2          \* max_num_images ranges over -1..MaxImages

\* ---------------------------------------------------------------- values
None == 0
Unbounded == -1
Main == "main"                     \* the thread of record_live_stream_to_folder
Readers == {"reader"}              \* a further thread calling get_frame_from_deque
Threads == {Main} \cup Readers

VARIABLES
    stream,                         \* what video_capture.read() does: "ready", "absent", "intermittent"
    mode,                           \* args.display_only: "display" or "record"
    target_arg,                     \* the target_folder_path argument of __init__
    target_folder_path,             \* self.target_folder_path, "unset" when the attribute does not exist
    buffer_size,                    \* maxlen of self.frames
    max_sequential_fail_attempts,
    max_num_images,
    frames,                         \* self.frames, oldest first
    keep_querying,                  \* self.keep_querying
    released,                       \* number of video_capture.release() calls
    captured,                       \* number of frames the source has yielded
    alive,                          \* the process is running
    ppc,                            \* position of the producer thread
    mpc,                            \* position of the main thread
    qpc,                            \* position inside _query_frame
    num_failed_attempts,            \* local of _query_frame
    frame,                          \* local of _query_frame, then of its caller
    num_images_saved,               \* local of record_live_stream_to_folder
    gpc,                            \* per thread: position inside get_frame_from_deque
    pop_right,                      \* per thread: argument of get_frame_from_deque
    gret,                           \* per thread: value returned by get_frame_from_deque
    \* observations (history of what the code did)
    qf_trace,                       \* reads and sleeps of the current _query_frame call
    prior_absences,                 \* an earlier, completed _query_frame call saw an absence
    rec_trace,                      \* imwrite calls (frame) and interval sleeps (None), in order
    pushed,                         \* number of frames.append calls
    evicted,                        \* frames dropped by an append on a full deque
    popped,                         \* frames returned by get_frame_from_deque
    pop_count,                      \* number of frames returned by get_frame_from_deque
    shown,                          \* frames passed to cv2.imshow, in order
    errors,                         \* number of logging.error calls
    quit_pressed,                   \* cv2.waitKey has returned 'q'
    after_stop                      \* what the producer did with keep_querying False: appends, reads

cfg == <<stream, mode, target_arg, target_folder_path, buffer_size,
         max_sequential_fail_attempts, max_num_images>>
shared == <<frames, keep_querying, released, alive>>
query == <<qpc, num_failed_attempts, frame, captured, qf_trace, prior_absences>>
getter == <<gpc, pop_right, gret, popped, pop_count>>
obs == <<rec_trace, pushed, evicted, shown, errors, quit_pressed, after_stop>>
vars == <<cfg, shared, query, getter, obs, ppc, mpc, num_images_saved>>

\* ---------------------------------------------------------------- helpers
Last(s) == s[Len(s)]
Front(s) == SubSeq(s, 1, Len(s) - 1)
Min(a, b) == IF a < b THEN a ELSE b
Range(s) == {s[i] : i \in 1..Len(s)}
NoDuplicates(s) == \A i, j \in 1..Len(s) : i # j => s[i] # s[j]

\* __init__, lines 52-54: the attribute is assigned only inside the `if`.
InitTargetFolderPath(arg) ==
    IF arg = "None" \/ arg = "" THEN "capture_datetime" ELSE "unset"

Init ==
    /\ stream \in {"ready", "absent", "intermittent"}
    /\ mode \in {"display", "record"}
    /\ target_arg \in {"None", "", "dir"}
    /\ target_folder_path = InitTargetFolderPath(target_arg)
    /\ buffer_size \in 0..MaxBufferSize
    /\ max_sequential_fail_attempts \in 1..MaxFailAttempts
    /\ max_num_images \in Unbounded..MaxImages
    /\ frames = <<>>
    /\ keep_querying = TRUE
    /\ released = 0
    /\ captured = 0
    /\ alive = TRUE
    /\ ppc = "unstarted"
    /\ mpc = "main"
    /\ qpc = "idle"
    /\ num_failed_attempts = 0
    /\ frame = None
    /\ num_images_saved = 0
    /\ gpc = [t \in Threads |-> "idle"]
    /\ pop_right = [t \in Threads |-> FALSE]
    /\ gret = [t \in Threads |-> None]
    /\ qf_trace = <<>>
    /\ prior_absences = FALSE
    /\ rec_trace = <<>>
    /\ pushed = 0
    /\ evicted = {}
    /\ popped = {}
    /\ pop_count = 0
    /\ shown = <<>>
    /\ errors = 0
    /\ quit_pressed = FALSE
    /\ after_stop = [pushes |-> 0, reads |-> 0]

\* ---------------------------------------------------------------- the source
\* video_capture.read(), line 65: the frames this read may return.  The model
\* follows the stream for MaxFrames frames.
SourceRead ==
    (IF stream # "ready" THEN {None} ELSE {})
        \cup (IF stream # "absent" /\ captured < MaxFrames THEN {captured + 1} ELSE {})

\* ---------------------------------------------------------------- _query_frame
\* Mutant of QueryEnter: the failure counter survives from the previous call.
QueryEnterLeaky ==
    /\ qpc' = "while"
    /\ frame' = None
    /\ qf_trace' = <<>>
    /\ UNCHANGED <<num_failed_attempts, captured, prior_absences>>

\* Lines 61-62: the locals of a new call.
QueryEnter ==
    /\ qpc' = "while"
    /\ num_failed_attempts' = 0
    /\ frame' = None
    /\ qf_trace' = <<>>
    /\ UNCHANGED <<captured, prior_absences>>

\* Mutant of RetryAllowed: one attempt too many.
RetryAllowedOffByOne(n, max) == n <= max

\* Line 64: the loop condition.
RetryAllowed(n, max) == n < max

\* Lines 64, 77: loop test; raise IOError when the attempts ran out.
QfWhile ==
    /\ alive /\ qpc = "while"
    /\ qpc' = IF RetryAllowed(num_failed_attempts, max_sequential_fail_attempts)
              THEN "read" ELSE "raised"
    /\ UNCHANGED <<cfg, shared, getter, obs, ppc, mpc, num_images_saved,
                   num_failed_attempts, frame, captured, qf_trace, prior_absences>>

\* Lines 65-74: one read attempt.
QfRead ==
    /\ alive /\ qpc = "read"
    /\ \E f \in SourceRead :
        /\ qf_trace' = Append(qf_trace, "read")
        /\ IF f = None
           THEN /\ num_failed_attempts' = num_failed_attempts + 1
                /\ qpc' = "sleep"
                /\ UNCHANGED <<frame, captured>>
           ELSE /\ frame' = f
                /\ captured' = captured + 1
                /\ qpc' = "returned"
                /\ UNCHANGED num_failed_attempts
    /\ after_stop' = IF ppc = "query" /\ ~keep_querying
                     THEN [after_stop EXCEPT !.reads = @ + 1] ELSE after_stop
    /\ UNCHANGED <<cfg, shared, getter, ppc, mpc, num_images_saved, prior_absences,
                   rec_trace, pushed, evicted, shown, errors, quit_pressed>>

\* Lines 71-72: time.sleep(self.micro_sleep_time); continue.
QfSleep ==
    /\ alive /\ qpc = "sleep"
    /\ qf_trace' = Append(qf_trace, "sleep")
    /\ qpc' = "while"
    /\ UNCHANGED <<cfg, shared, getter, obs, ppc, mpc, num_images_saved,
                   num_failed_attempts, frame, captured, prior_absences>>

\* Lines 74, 77: the call ends (return or raise); its locals die with it.
QueryLeave ==
    /\ qpc' = "idle"
    /\ prior_absences' = (prior_absences \/ num_failed_attempts > 0)
    /\ UNCHANGED <<num_failed_attempts, frame, captured, qf_trace>>

\* ---------------------------------------------------------------- the deque
\* deque(maxlen=buffer_size).append, lines 46, 94: append at the tail, then drop
\* the head while the deque is longer than maxlen.
\* Mutants of DequeAppend: a full deque refuses the new frame; maxlen is ignored.
DequeAppendKeepOldest(s, f, maxlen) == IF Len(s) >= maxlen THEN s ELSE Append(s, f)
DequeAppendUnbounded(s, f, maxlen) == Append(s, f)

DequeAppend(s, f, maxlen) ==
    LET t == Append(s, f) IN IF Len(t) > maxlen THEN Tail(t) ELSE t

\* What the append drops (observation).
DequeDropped(s, f, maxlen) ==
    LET t == Append(s, f) IN IF Len(t) > maxlen THEN {Head(t)} ELSE {}

\* Lines 116, 118: deque.pop() takes the tail, deque.popleft() the head.
\* Mutant of DequePopValue: the two ends are swapped.
DequePopValueSwapped(s, right) == IF right THEN Head(s) ELSE Last(s)
\* Mutant of DequePopRest: the frame is read but left in the deque.
DequePopRestPeek(s, right) == s

DequePopValue(s, right) == IF right THEN Last(s) ELSE Head(s)
DequePopRest(s, right) == IF right THEN Front(s) ELSE Tail(s)

\* ---------------------------------------------------------------- _query_frames
\* Mutant of PWhile: the loop does not test keep_querying.
PWhileDeaf ==
    /\ alive /\ ppc = "while"
    /\ QueryEnter
    /\ ppc' = "query"
    /\ UNCHANGED <<cfg, shared, getter, obs, mpc, num_images_saved>>

\* Lines 86-88, 96-98: loop test; call _query_frame, or leave the loop.
PWhile ==
    /\ alive /\ ppc = "while"
    /\ IF keep_querying
       THEN /\ QueryEnter
            /\ ppc' = "query"
       ELSE /\ ppc' = "release"
            /\ UNCHANGED query
    /\ UNCHANGED <<cfg, shared, getter, obs, mpc, num_images_saved>>

\* Lines 88-89: _query_frame returned a frame.
PGot ==
    /\ alive /\ ppc = "query" /\ qpc = "returned"
    /\ QueryLeave
    /\ ppc' = "append"
    /\ UNCHANGED <<cfg, shared, getter, obs, mpc, num_images_saved>>

\* Lines 90-92: IOError caught; logging.error, then sys.exit(1), which in a
\* thread other than the main one raises SystemExit and ends that thread only.
PRaise ==
    /\ alive /\ ppc = "query" /\ qpc = "raised"
    /\ QueryLeave
    /\ errors' = errors + 1
    /\ ppc' = "exited"
    /\ UNCHANGED <<cfg, shared, getter, mpc, num_images_saved,
                   rec_trace, pushed, evicted, shown, quit_pressed, after_stop>>

\* Mutant of PAppend: the producer waits for room in a full buffer.
PAppendBlocking ==
    /\ alive /\ ppc = "append"
    /\ Len(frames) < buffer_size
    /\ frames' = Append(frames, frame)
    /\ pushed' = pushed + 1
    /\ after_stop' = IF keep_querying THEN after_stop
                     ELSE [after_stop EXCEPT !.pushes = @ + 1]
    /\ ppc' = "while"
    /\ UNCHANGED <<cfg, keep_querying, released, alive, query, getter, mpc, evicted,
                   num_images_saved, rec_trace, shown, errors, quit_pressed>>

\* Line 94: self.frames.append(frame).
PAppend ==
    /\ alive /\ ppc = "append"
    /\ frames' = DequeAppend(frames, frame, buffer_size)
    /\ evicted' = evicted \cup DequeDropped(frames, frame, buffer_size)
    /\ pushed' = pushed + 1
    /\ after_stop' = IF keep_querying THEN after_stop
                     ELSE [after_stop EXCEPT !.pushes = @ + 1]
    /\ ppc' = "while"
    /\ UNCHANGED <<cfg, keep_querying, released, alive, query, getter, mpc,
                   num_images_saved, rec_trace, shown, errors, quit_pressed>>

\* Mutant of PRelease: the flag is armed again for a later run.
PReleaseRearm ==
    /\ alive /\ ppc = "release"
    /\ released' = released + 1
    /\ keep_querying' = TRUE
    /\ ppc' = "done"
    /\ UNCHANGED <<cfg, frames, alive, query, getter, obs, mpc, num_images_saved>>

\* Lines 96-98: the loop was left; self.video_capture.release().
PRelease ==
    /\ alive /\ ppc = "release"
    /\ released' = released + 1
    /\ ppc' = "done"
    /\ UNCHANGED <<cfg, frames, keep_querying, alive, query, getter, obs, mpc,
                   num_images_saved>>

\* Lines 100-102.
signal_stop_querying == keep_querying' = FALSE

\* ---------------------------------------------------------------- get_frame_from_deque
\* Mutant of GetCheck: the emptiness test is missing.
GetCheckMissing(t) ==
    /\ alive /\ gpc[t] = "check"
    /\ gpc' = [gpc EXCEPT ![t] = "pop"]
    /\ UNCHANGED <<cfg, shared, query, obs, ppc, mpc, num_images_saved, pop_right, gret,
                   popped, pop_count>>

\* Line 114: `if self.frames:`; line 121: return None when it is empty.
GetCheck(t) ==
    /\ alive /\ gpc[t] = "check"
    /\ IF frames # <<>>
       THEN /\ gpc' = [gpc EXCEPT ![t] = "pop"]
            /\ UNCHANGED gret
       ELSE /\ gpc' = [gpc EXCEPT ![t] = "ret"]
            /\ gret' = [gret EXCEPT ![t] = None]
    /\ UNCHANGED <<cfg, shared, query, obs, ppc, mpc, num_images_saved, pop_right, popped, pop_count>>

\* Lines 115-118: pop() or popleft(); either raises IndexError on an empty deque.
GetPop(t) ==
    /\ alive /\ gpc[t] = "pop"
    /\ IF frames # <<>>
       THEN /\ gret' = [gret EXCEPT ![t] = DequePopValue(frames, pop_right[t])]
            /\ frames' = DequePopRest(frames, pop_right[t])
            /\ popped' = popped \cup {DequePopValue(frames, pop_right[t])}
            /\ pop_count' = pop_count + 1
            /\ gpc' = [gpc EXCEPT ![t] = "ret"]
       ELSE /\ gpc' = [gpc EXCEPT ![t] = "IndexError"]
            /\ UNCHANGED <<frames, gret, popped, pop_count>>
    /\ UNCHANGED <<cfg, keep_querying, released, alive, query, obs, ppc, mpc,
                   num_images_saved, pop_right>>

\* ---------------------------------------------------------------- show_live_stream_video
\* Lines 229, 135-137: display mode; each iteration calls _query_frame itself.
ShowWhile ==
    /\ alive
    /\ \/ mpc = "main" /\ mode = "display"
       \/ mpc = "show_while"
    /\ QueryEnter
    /\ mpc' = "show_query"
    /\ UNCHANGED <<cfg, shared, getter, obs, ppc, num_images_saved>>

\* Lines 137-143: the frame is shown with cv2.imshow.
ShowGot ==
    /\ alive /\ mpc = "show_query" /\ qpc = "returned"
    /\ QueryLeave
    /\ shown' = Append(shown, frame)
    /\ mpc' = "show_waitkey"
    /\ UNCHANGED <<cfg, shared, getter, ppc, num_images_saved,
                   rec_trace, pushed, evicted, errors, quit_pressed, after_stop>>

\* Lines 139-141: IOError caught; logging.error, then sys.exit(1) in the main thread.
ShowRaise ==
    /\ alive /\ mpc = "show_query" /\ qpc = "raised"
    /\ QueryLeave
    /\ errors' = errors + 1
    /\ mpc' = "exit1"
    /\ UNCHANGED <<cfg, shared, getter, ppc, num_images_saved,
                   rec_trace, pushed, evicted, shown, quit_pressed, after_stop>>

\* Lines 145-146: cv2.waitKey(1); 'q' breaks the loop.
ShowWaitKey ==
    /\ alive /\ mpc = "show_waitkey"
    /\ \E q \in BOOLEAN :
        /\ mpc' = IF q THEN "show_stop" ELSE "show_while"
        /\ quit_pressed' = (quit_pressed \/ q)
    /\ UNCHANGED <<cfg, shared, query, getter, ppc, num_images_saved,
                   rec_trace, pushed, evicted, shown, errors, after_stop>>

\* Line 147.
ShowStop ==
    /\ alive /\ mpc = "show_stop"
    /\ signal_stop_querying
    /\ mpc' = "done"
    /\ UNCHANGED <<cfg, frames, released, alive, query, getter, obs, ppc, num_images_saved>>

\* ---------------------------------------------------------------- record_live_stream_to_folder
\* Lines 231, 153-170: Path(self.target_folder_path) raises AttributeError when
\* the attribute was never assigned; otherwise the producer thread is started.
RecSetup ==
    /\ alive /\ mpc = "main" /\ mode = "record"
    /\ IF target_folder_path = "unset"
       THEN /\ mpc' = "crashed"
            /\ UNCHANGED ppc
       ELSE /\ mpc' = "rec_while"
            /\ ppc' = "while"
    /\ num_images_saved' = 0
    /\ UNCHANGED <<cfg, shared, query, getter, obs>>

\* Mutant of RecordMore: one image too many.
RecordMoreOffByOne(saved, max) == saved <= max \/ max = Unbounded

\* Line 173: the loop condition of the recording loop.
RecordMore(saved, max) == saved < max \/ max = Unbounded

\* Lines 173-174: loop test; call get_frame_from_deque() (pop_right defaults to False).
RecWhile ==
    /\ alive /\ mpc = "rec_while"
    /\ IF RecordMore(num_images_saved, max_num_images)
       THEN /\ mpc' = "rec_get"
            /\ gpc' = [gpc EXCEPT ![Main] = "check"]
            /\ pop_right' = [pop_right EXCEPT ![Main] = FALSE]
       ELSE /\ mpc' = "rec_stop"
            /\ UNCHANGED <<gpc, pop_right>>
    /\ UNCHANGED <<cfg, shared, query, obs, ppc, num_images_saved, gret, popped, pop_count>>

\* Lines 174-181: no frame: time.sleep(micro_sleep_time); a frame: cv2.imwrite.
RecGot ==
    /\ alive /\ mpc = "rec_get" /\ gpc[Main] = "ret"
    /\ gpc' = [gpc EXCEPT ![Main] = "idle"]
    /\ IF gret[Main] = None
       THEN /\ mpc' = "rec_waitkey"
            /\ UNCHANGED rec_trace
       ELSE /\ mpc' = "rec_interval"
            /\ rec_trace' = Append(rec_trace, gret[Main])
    /\ UNCHANGED <<cfg, shared, query, ppc, num_images_saved, pop_right, gret, popped, pop_count,
                   pushed, evicted, shown, errors, quit_pressed, after_stop>>

\* Line 174: an IndexError of get_frame_from_deque is not caught: the main thread dies.
RecGetRaise ==
    /\ alive /\ mpc = "rec_get" /\ gpc[Main] = "IndexError"
    /\ mpc' = "crashed"
    /\ UNCHANGED <<cfg, shared, query, getter, obs, ppc, num_images_saved>>

\* Lines 182-183: time.sleep(interval_in_seconds); num_images_saved += 1.
RecInterval ==
    /\ alive /\ mpc = "rec_interval"
    /\ rec_trace' = Append(rec_trace, None)
    /\ num_images_saved' = num_images_saved + 1
    /\ mpc' = "rec_waitkey"
    /\ UNCHANGED <<cfg, shared, query, getter, ppc,
                   pushed, evicted, shown, errors, quit_pressed, after_stop>>

\* Lines 185-191: cv2.waitKey(1); 'q' breaks the loop.
RecWaitKey ==
    /\ alive /\ mpc = "rec_waitkey"
    /\ \E q \in BOOLEAN :
        /\ mpc' = IF q THEN "rec_stop" ELSE "rec_while"
        /\ quit_pressed' = (quit_pressed \/ q)
    /\ UNCHANGED <<cfg, shared, query, getter, ppc, num_images_saved,
                   rec_trace, pushed, evicted, shown, errors, after_stop>>

\* Lines 193-195: self.signal_stop_querying(); the function returns.
RecStop ==
    /\ alive /\ mpc = "rec_stop"
    /\ signal_stop_querying
    /\ mpc' = "done"
    /\ UNCHANGED <<cfg, frames, released, alive, query, getter, obs, ppc, num_images_saved>>

\* ---------------------------------------------------------------- the process
\* Lines 141, 169, 228-232: the script ends when the main thread does (return,
\* sys.exit or an uncaught exception); the producer is a daemon thread and is
\* stopped wherever it is.
ProcessExit ==
    /\ alive /\ mpc \in {"done", "crashed", "exit1"}
    /\ alive' = FALSE
    /\ UNCHANGED <<cfg, frames, keep_querying, released, query, getter, obs, ppc, mpc,
                   num_images_saved>>

\* ---------------------------------------------------------------- further readers
\* Another thread calls the public get_frame_from_deque(pop_right), line 104.
ReaderCall(r) ==
    /\ alive /\ gpc[r] \in {"idle", "ret"}
    /\ \E right \in BOOLEAN : pop_right' = [pop_right EXCEPT ![r] = right]
    /\ gpc' = [gpc EXCEPT ![r] = "check"]
    /\ UNCHANGED <<cfg, shared, query, obs, ppc, mpc, num_images_saved, gret, popped, pop_count>>

\* ---------------------------------------------------------------- specifications
QueryStep == QfWhile \/ QfRead \/ QfSleep
ProducerStep == PWhile \/ PGot \/ PRaise \/ PAppend \/ PRelease
DisplayStep == ShowWhile \/ ShowGot \/ ShowRaise \/ ShowWaitKey \/ ShowStop
RecordStep ==
    \/ RecSetup \/ RecWhile \/ GetCheck(Main) \/ GetPop(Main) \/ RecGot
    \/ RecInterval \/ RecWaitKey \/ RecStop
ReaderStep == \E r \in Readers : ReaderCall(r) \/ GetCheck(r) \/ GetPop(r)

Next == QueryStep \/ ProducerStep \/ DisplayStep \/ RecordStep \/ ProcessExit

Spec == Init /\ [][Next]_vars

\* The threads of CPython are scheduled fairly: a thread that can step does.
FairSpec ==
    /\ Spec
    /\ WF_vars(QueryStep)
    /\ WF_vars(ProducerStep)
    /\ WF_vars(DisplayStep)
    /\ WF_vars(RecordStep)
    /\ WF_vars(ProcessExit)

\* The program with further threads reading the buffer.
InitReaders ==
    /\ Init
    /\ mode = "record"
    /\ target_arg = "None"
    /\ stream = "intermittent"
    /\ max_sequential_fail_attempts = 1
    /\ max_num_images = Unbounded

NextReaders ==
    QueryStep \/ ProducerStep \/ RecordStep \/ RecGetRaise \/ ProcessExit \/ ReaderStep

SpecReaders == InitReaders /\ [][NextReaders]_vars

\* Lines 100-102: some other thread calls the public signal_stop_querying()
\* while the main thread is recording or displaying.
ExternalStop ==
    /\ alive /\ keep_querying
    /\ mpc \notin {"main", "done", "crashed", "exit1"}
    /\ signal_stop_querying
    /\ UNCHANGED <<cfg, frames, released, alive, query, getter, obs, ppc, mpc,
                   num_images_saved>>

\* The program with an explicit external stop request.
NextStop == Next \/ ExternalStop

SpecStop == Init /\ [][NextStop]_vars

\* Recording with an external stop request, threads scheduled fairly; the
\* buffer capacity plays no part in what the producer does and is fixed.
InitStop ==
    /\ Init
    /\ mode = "record"
    /\ target_arg = "None"
    /\ buffer_size = 1

NextRecordStop == QueryStep \/ ProducerStep \/ RecordStep \/ ProcessExit \/ ExternalStop

FairSpecStop ==
    /\ InitStop /\ [][NextRecordStop]_vars
    /\ WF_vars(QueryStep)
    /\ WF_vars(ProducerStep)
    /\ WF_vars(RecordStep)
    /\ WF_vars(ProcessExit)

\* Recording alone, threads scheduled fairly; the retry budget plays no part in
\* the push and is fixed.
InitRecord ==
    /\ Init
    /\ mode = "record"
    /\ target_arg = "None"
    /\ max_sequential_fail_attempts = 1

NextRecord == QueryStep \/ ProducerStep \/ RecordStep \/ ProcessExit

FairSpecRecord ==
    /\ InitRecord /\ [][NextRecord]_vars
    /\ WF_vars(QueryStep)
    /\ WF_vars(ProducerStep)
    /\ WF_vars(RecordStep)
    /\ WF_vars(ProcessExit)

\* ---------------------------------------------------------------- claims
\* The trace of a _query_frame call that saw n absences: read, sleep, read, sleep, ...
AbsentAttempts(n) == [i \in 1..(2 * n) |-> IF i % 2 = 1 THEN "read" ELSE "sleep"]

\* The frames 1..n pushed in order, reduced to the most recent c of them.
MostRecent(c, n) == [i \in 1..Min(c, n) |-> n - Min(c, n) + i]

\* The step of line 94.
PushStep == ppc = "append" /\ ppc' = "while"

\* The imwrite calls of the recording loop so far.
Writes == Cardinality({i \in 1..Len(rec_trace) : rec_trace[i] # None})

\* C1: as long as nothing was popped, the buffer holds exactly the most recent
\* min(buffer_size, pushed) of the frames pushed so far, in arrival order.
C1_MostRecentKept ==
    pop_count = 0 =>
        /\ frames = MostRecent(buffer_size, pushed)
        /\ Len(frames) = Min(buffer_size, pushed)

\* C1 witness: capacity 3, frames 1..5 pushed, nothing popped: [3, 4, 5] is left.
C1_Witness ==
    pop_count = 0 /\ buffer_size = 3 /\ pushed = 5 /\ frames = <<3, 4, 5>>

\* C2 (as stated): the buffer never holds more than buffer_size frames, and a
\* push onto a full buffer keeps the pushed frame and drops the head.
C2_Original ==
    /\ [](Len(frames) <= buffer_size)
    /\ [][PushStep /\ Len(frames) = buffer_size =>
            /\ frame \in Range(frames')
            /\ frame \notin evicted'
            /\ frames # <<>> => /\ frames' = Append(Tail(frames), frame)
                                /\ evicted' = evicted \cup {Head(frames)}]_vars

\* C2 (amended): the buffer never holds more than buffer_size frames, and for a
\* capacity of at least 1 a push onto a full buffer keeps the pushed frame at the
\* tail and drops exactly the head; with capacity 0 the pushed frame is dropped.
C2_DropOldest ==
    /\ [](Len(frames) <= buffer_size)
    /\ [][PushStep /\ Len(frames) = buffer_size =>
            IF buffer_size >= 1
            THEN /\ frames' = Append(Tail(frames), frame)
                 /\ evicted' = evicted \cup {Head(frames)}
                 /\ frame \notin evicted'
            ELSE /\ frames' = <<>>
                 /\ evicted' = evicted \cup {frame}]_vars

\* C2 witness: a full buffer of capacity 2 has been pushed onto: frame 1 is gone,
\* frames 2 and 3 are kept.
C2_Witness ==
    buffer_size = 2 /\ pushed = 3 /\ pop_count = 0 /\ evicted = {1} /\ frames = <<2, 3>>

\* C3: get_frame_from_deque on an empty buffer returns None at once and leaves
\* the buffer alone, whatever pop_right is; on a non-empty buffer it removes and
\* returns the tail when pop_right is set and the head otherwise, and the buffer
\* is shorter by exactly one.
C3_PopContract ==
    /\ [](\A t \in Threads : alive /\ gpc[t] = "check" => ENABLED GetCheck(t))
    /\ [][\A t \in Threads :
            /\ gpc[t] = "check" /\ gpc'[t] # "check" /\ frames = <<>> =>
                    gpc'[t] = "ret" /\ gret'[t] = None /\ frames' = frames
            /\ gpc[t] = "pop" /\ gpc'[t] # "pop" /\ frames # <<>> =>
                    /\ gpc'[t] = "ret"
                    /\ gret'[t] = (IF pop_right[t] THEN Last(frames) ELSE Head(frames))
                    /\ frames' = (IF pop_right[t] THEN Front(frames) ELSE Tail(frames))
                    /\ Len(frames') = Len(frames) - 1]_vars

\* C3 witness: a reader called with pop_right set got frame 3, the tail of
\* [1, 2, 3], and frames 1 and 2 are still in the buffer.
C3_Witness ==
    \E r \in Readers :
        /\ pop_right[r] /\ gpc[r] = "ret" /\ gret[r] = 3
        /\ frames = <<1, 2>> /\ pop_count = 1 /\ evicted = {}

\* C4: a _query_frame call raises IOError only after exactly
\* max_sequential_fail_attempts read attempts, each followed by one sleep, and a
\* source that is always absent never makes it return a frame.
C4_ExhaustedAfterMaxAttempts ==
    /\ qpc = "raised" =>
            /\ num_failed_attempts = max_sequential_fail_attempts
            /\ qf_trace = AbsentAttempts(max_sequential_fail_attempts)
    /\ stream = "absent" => qpc # "returned" /\ captured = 0
    /\ stream = "absent" /\ qpc = "read" =>
            num_failed_attempts < max_sequential_fail_attempts

\* C4 witness: two attempts allowed, the source always absent, IOError raised
\* after read, sleep, read, sleep.
C4_Witness ==
    /\ qpc = "raised" /\ stream = "absent" /\ max_sequential_fail_attempts = 2
    /\ qf_trace = <<"read", "sleep", "read", "sleep">>

\* C5: a _query_frame call returns the frame of its first attempt that yields
\* one, after fewer than max_sequential_fail_attempts absences; the trace of a
\* call holds only its own absences (the counter starts at zero on every call),
\* so a first attempt that yields a frame returns with no sleep.
C5_FirstFrameReturned ==
    /\ qpc = "returned" =>
            /\ frame # None /\ frame = captured
            /\ num_failed_attempts < max_sequential_fail_attempts
            /\ qf_trace = Append(AbsentAttempts(num_failed_attempts), "read")
    /\ qpc \in {"while", "read"} => qf_trace = AbsentAttempts(num_failed_attempts)
    /\ qpc = "raised" => num_failed_attempts >= max_sequential_fail_attempts

\* C5 witness: an earlier call saw absences, and this call returned from its
\* first attempt without sleeping.
C5_Witness ==
    /\ qpc = "returned" /\ prior_absences
    /\ qf_trace = <<"read">> /\ num_failed_attempts = 0

\* C6: once the producer has stopped on an IOError of _query_frame, keep_querying
\* is false; the failed fetch pushed nothing, and with a source that is always
\* absent nothing is ever pushed.
C6_FatalFetchStopsPipeline ==
    /\ ppc = "exited" => ~keep_querying
    /\ stream = "absent" => pushed = 0 /\ frames = <<>>

\* C7: after the producer has stopped on an IOError, the recording loop of the
\* main thread ends too.
C7_ConsumerStopsAfterFatalFetch ==
    (ppc = "exited") ~> (mpc \in {"done", "crashed"})

\* The case of C8: recording from an always-ready source, no quit key so far,
\* a bounded number of images.
C8_Case ==
    mode = "record" /\ stream = "ready" /\ ~quit_pressed /\ max_num_images >= 0

\* C8: in that case the recording loop calls imwrite at most max_num_images
\* times, every imwrite is followed by one interval sleep before the next
\* imwrite, keep_querying is cleared only after the max_num_images-th imwrite
\* and its sleep, and the loop has ended only with keep_querying cleared.
C8_ExactlyMaxImages ==
    C8_Case =>
        /\ \A i \in 1..Len(rec_trace) : (rec_trace[i] # None) <=> (i % 2 = 1)
        /\ Writes <= max_num_images
        /\ num_images_saved = Len(rec_trace) - Writes
        /\ ~keep_querying => /\ Writes = max_num_images
                              /\ Len(rec_trace) = 2 * max_num_images
        /\ mpc = "done" => ~keep_querying
        /\ mpc = "rec_stop" => num_images_saved = max_num_images

\* C8 witness: two images asked for; the loop has ended after imwrite, sleep,
\* imwrite, sleep, and keep_querying is cleared.
C8_Witness ==
    /\ C8_Case /\ max_num_images = 2 /\ mpc = "done" /\ ~keep_querying
    /\ Writes = 2 /\ Len(rec_trace) = 4

\* C9: with the producer and the recording loop alone, every pushed frame is
\* either popped, still in the buffer or evicted, exactly one of the three; no
\* frame is popped twice and every popped frame was pushed before.
C9_FramesConserved ==
    /\ pop_count + Len(frames) + Cardinality(evicted) = pushed
    /\ Cardinality(popped) = pop_count
    /\ popped \subseteq 1..pushed
    /\ popped \cap evicted = {}
    /\ Range(frames) \cap (popped \cup evicted) = {}
    /\ NoDuplicates(frames)

\* C9 witness: five frames pushed; two were popped, two evicted, one remains.
C9_Witness ==
    /\ pushed = 5 /\ pop_count = 2 /\ Cardinality(evicted) = 2 /\ Len(frames) = 1

\* C10: with a further reader, no call of get_frame_from_deque fails, every
\* call returns None or a pushed frame, and no frame is returned twice.
C10_ReadersSafe ==
    /\ \A t \in Threads : gpc[t] # "IndexError"
    /\ \A t \in Threads : gret[t] \in {None} \cup (1..pushed)
    /\ Cardinality(popped) = pop_count

\* C11: recording has a target folder whatever target_folder_path was passed
\* (the given path, or a date-time named folder for None or ""), and
\* record_live_stream_to_folder gets past its setup and starts the producer.
C11_TargetFolderDefined ==
    mode = "record" /\ mpc # "main" =>
        /\ target_folder_path =
                (IF target_arg \in {"None", ""} THEN "capture_datetime" ELSE target_arg)
        /\ mpc # "crashed"
        /\ ppc # "unstarted"

\* C12: video_capture.release() is never called twice, and it has been called
\* once when the producer loop has been left (by the stop flag or by IOError)
\* and when the display loop has been left (by the quit key or by IOError).
C12_ReleasedExactlyOnce ==
    /\ released <= 1
    /\ ppc \in {"done", "exited"} => released = 1
    /\ mode = "display" /\ mpc \in {"done", "exit1"} => released = 1
    /\ ~alive /\ ppc # "unstarted" => released = 1

\* C13: keep_querying starts true, and once it is false it is false for ever.
C13_StopFlagMonotone ==
    /\ keep_querying = TRUE
    /\ [][~keep_querying => ~keep_querying']_vars

\* C13 witness: the flag was cleared and the producer has since stepped twice
\* (loop test, release) with the flag still false.
C13_Witness ==
    ~keep_querying /\ ppc = "done" /\ released = 1

\* C14: with keep_querying false, each loop leaves at its next loop test: the
\* producer loop, the recording loop and the display loop.
C14_AllLoopsPollStopFlag ==
    [][~keep_querying =>
        /\ ppc = "while" /\ ppc' # ppc => ppc' = "release"
        /\ mpc = "rec_while" /\ mpc' # mpc => mpc' = "rec_stop"
        /\ mpc = "show_while" /\ mpc' # mpc => mpc' \in {"show_stop", "done"}]_vars

\* The model does not follow an always-ready stream beyond MaxFrames frames: the
\* read of the frame after the last one is never taken.
StreamCutOff == stream = "ready" /\ captured = MaxFrames /\ qpc = "read"

\* C15: with keep_querying false the producer starts no new fetch, makes at most
\* max_sequential_fail_attempts further reads for the fetch in flight, and
\* then leaves its loop (to the release, or by IOError), unless the process ends.
C15_ProducerLeavesAfterStop ==
    /\ [](after_stop.reads <= max_sequential_fail_attempts)
    /\ [][~keep_querying /\ ppc = "while" /\ ppc' # ppc =>
            ppc' = "release" /\ qpc' = qpc]_vars
    /\ (~keep_querying /\ ppc \in {"while", "query", "append", "release"})
            ~> (ppc \in {"done", "exited"} \/ ~alive \/ StreamCutOff)

\* C15 witness: an external stop came during a fetch; the producer made two
\* more reads, got its frame, appended it and left through the release, with
\* the process still running.
C15_Witness ==
    /\ ~keep_querying /\ alive /\ ppc = "done" /\ mpc \notin {"done", "crashed", "exit1"}
    /\ after_stop.reads = 2 /\ after_stop.pushes = 1

\* The frames written by cv2.imwrite so far.
Persisted == {rec_trace[i] : i \in 1..Len(rec_trace)} \ {None}

\* C16: every frame a consumer acts on (shown by the display loop, written by
\* the recording loop) was returned by a pop of the buffer.
C16_ConsumersReadBuffer ==
    /\ Range(shown) \subseteq popped
    /\ Persisted \subseteq popped

\* C17: a producer holding a fetched frame can always push it, whatever the
\* buffer length and whatever the main thread is doing; the push goes through
\* on a full buffer too; and with an always-ready stream the producer pushes
\* every frame of the stream the model follows, popped or not, unless it is
\* stopped or the process ends.
C17_ProducerNeverBlocked ==
    /\ [](alive /\ ppc = "append" => ENABLED PAppend)
    /\ [][PushStep => /\ pushed' = pushed + 1
                      /\ buffer_size >= 1 => Last(frames') = frame]_vars
    /\ (stream = "ready" /\ ppc = "while")
            ~> (pushed = MaxFrames \/ ~keep_querying \/ ~alive)

\* C17 witness: the recording loop is in its interval sleep after its first
\* imwrite, and the producer has meanwhile pushed every other frame onto a
\* full buffer.
C17_Witness ==
    /\ mpc = "rec_interval" /\ pop_count = 1 /\ pushed = MaxFrames
    /\ buffer_size >= 1 /\ Len(frames) = buffer_size
    /\ Cardinality(evicted) = MaxFrames - 1 - buffer_size

\* C18: with keep_querying false the producer appends at most one more frame,
\* and once it has appended that frame it is never in a fetch again.
C18_AtMostOnePushAfterStop ==
    /\ after_stop.pushes <= 1
    /\ after_stop.pushes = 1 => ppc \in {"while", "release", "done"}
    /\ ~keep_querying /\ ppc \in {"release", "done"} => qpc = "idle"

\* C18 witness: the stop came during a fetch; its frame was appended and the
\* producer has left the loop.
C18_Witness ==
    ~keep_querying /\ after_stop.pushes = 1 /\ ppc = "done" /\ pushed >= 2

\* C19: with the producer and the recording loop alone, the pop of
\* get_frame_from_deque always finds a frame: a buffer found non-empty by the
\* check is still non-empty at the pop, and no IndexError is raised.
C19_PopNeverOnEmpty ==
    /\ gpc[Main] = "pop" => frames # <<>>
    /\ gpc[Main] # "IndexError"
    /\ mpc # "crashed" \/ target_folder_path = "unset"

\* C19 witness: between the check and the pop the producer has pushed onto the
\* full buffer of capacity 1 and evicted its head; frame 3 is there to pop.
C19_Witness ==
    /\ gpc[Main] = "pop" /\ buffer_size = 1 /\ pop_count = 0
    /\ frames = <<3>> /\ evicted = {1, 2}

\* The frames written by cv2.imwrite, in the order of the calls.
PersistedSeq == SelectSeq(rec_trace, LAMBDA f : f # None)

\* C20: the frames persisted by the recording loop are strictly increasing in
\* capture order (so none is persisted twice), and none of them was evicted.
C20_PersistedInCaptureOrder ==
    /\ \A i, j \in 1..Len(PersistedSeq) : i < j => PersistedSeq[i] < PersistedSeq[j]
    /\ Persisted \cap evicted = {}
    /\ Persisted \subseteq 1..pushed

\* C20 witness: frames 2 and 5 were persisted, in that order, while frames 1, 3
\* and 4 were evicted.
C20_Witness ==
    PersistedSeq = <<2, 5>> /\ evicted = {1, 3, 4}

====
